---- MODULE Spec2Model ----
(***************************************************************************)
(* Model of the Whisper-Assistant transcript ingestion pipeline            *)
(* (src/ingestion): IngestionPipeline.run / _poll_and_ingest / stop, the   *)
(* TranscriptUtterance identity function, and the two collaborators the    *)
(* loop calls (the transcript source and the vector store), whose          *)
(* outcomes are chosen nondeterministically.                               *)
(***************************************************************************)
EXTENDS Integers, Sequences, FiniteSets, TLC

(* ------------------------------ bounds --------------------------------- *)

\* Total number of poll cycles one pipeline instance executes in the model.
MaxPolls == 3

\* Longest list a fetch returns.
MaxLen == 2

\* Largest cycle limit passed to run().
MaxLimit == 2

\* Number of ticks the inter-cycle time.sleep(poll_interval) lasts.
SleepTicks == 1

\* Largest start_ts, in whole seconds, of the utterances compute_id is applied to.
MaxTs == 2

(* ------------------------- TranscriptUtterance ------------------------- *)

\* Python's None in an Optional[float] field (_last_ts, end_ts, since_ts).
None == -1

\* Python's None in the Optional[str] field speaker_name.
NoName == "<None>"

MeetingId == "m"

Utt(speaker, name, text, start, end) ==
    [meeting_id |-> MeetingId, speaker_id |-> speaker, speaker_name |-> name,
     text |-> text, start_ts |-> start, end_ts |-> end, source |-> "vexa"]

\* Two observations of the same segment (same identity tuple, different
\* speaker_name / end_ts) and a later segment of another speaker.
UA == Utt("a", NoName, "x", 1, None)
UA2 == Utt("a", "n", "x", 1, 2)
UB == Utt("b", NoName, "y", 2, None)

\* The utterance objects the source hands out, by name.
Utterance == [A |-> UA, A2 |-> UA2, B |-> UB]

Utterances == DOMAIN Utterance

\* str(float) of a whole number of seconds: 1.0 -> "1.0".
FloatStr(n) == <<"0", "1", "2", "3", "4", "5", "6", "7", "8", "9">>[n + 1] \o ".0"

\* hashlib.sha256(key).hexdigest()[:32], taken as injective on the key string.
Sha256Hex32(key) == <<"sha256", key>>

\* An id that covers speaker_name too.
compute_id_WithName(u) ==
    Sha256Hex32(u.meeting_id \o ":" \o u.speaker_id \o ":" \o u.speaker_name
                \o ":" \o FloatStr(u.start_ts) \o ":" \o u.text)

\* Lines 30-36: the key joins four fields with ":" and is hashed.
compute_id(u) ==
    Sha256Hex32(u.meeting_id \o ":" \o u.speaker_id \o ":"
                \o FloatStr(u.start_ts) \o ":" \o u.text)

\* utterance.compute_id() and utterance.start_ts of the named objects.
IdOf == [u \in Utterances |-> compute_id(Utterance[u])]

StartTs == [u \in Utterances |-> Utterance[u].start_ts]

Ids == {IdOf[u] : u \in Utterances}

(* ------------------------------ helpers -------------------------------- *)

SeqsUpTo(S, n) == UNION {[1..k -> S] : k \in 0..n}

Range(s) == {s[i] : i \in 1..Len(s)}

SetMax(S) == CHOOSE m \in S : \A x \in S : x <= m

\* max(u.start_ts for u in new_utterances)
MaxStartTs(us) == SetMax({StartTs[us[i]] : i \in 1..Len(us)})

(* --------------------------- transcript source ------------------------- *)

\* The transcripts a source can hold when it is polled.
Transcripts == SeqsUpTo(Utterances, MaxLen)

\* A window that includes its lower bound.
SinceFilter_Inclusive(us, since_ts) ==
    IF since_ts # None
    THEN SelectSeq(us, LAMBDA u : StartTs[u] >= since_ts)
    ELSE us

\* VexaClient.fetch_latest_transcript: client-side filter on since_ts.
SinceFilter(us, since_ts) ==
    IF since_ts # None
    THEN SelectSeq(us, LAMBDA u : StartTs[u] > since_ts)
    ELSE us

\* MockVexaClient.fetch_latest_transcript ignores since_ts.
MockFetch(us, since_ts) == us

FetchResult(kind, us, since_ts) ==
    IF kind = "vexa" THEN SinceFilter(us, since_ts) ELSE MockFetch(us, since_ts)

(* ------------------------------- state --------------------------------- *)

VARIABLES
    client,            \* which source client the pipeline was built with
    on_new_utterance,  \* TRUE iff a callback is registered
    pc,                \* position of the thread executing run()
    running,           \* self._running
    last_ts,           \* self._last_ts (the watermark)
    seen_ids,          \* self._seen_ids
    stats,             \* self._stats
    iteration,         \* local of run()
    max_iterations,    \* argument of run(); 0 is None
    sleep_left,        \* remaining ticks of the current time.sleep
    new_utterances,    \* local of _poll_and_ingest
    idx,               \* position of the notification loop in new_utterances
    upserted,          \* store: how often each utterance was upserted with success
    notified,          \* how often the callback was invoked on each utterance
    stop_requested,    \* history: stop() has been called and no run() call followed
    pre,               \* history: pipeline state when the current cycle began
    cur,               \* history: what the current (or last) cycle did
    returned,          \* the mapping a caller got from the stats property
    utt_a,             \* a TranscriptUtterance object
    utt_b,             \* another TranscriptUtterance object
    ids,               \* what compute_id returned for the two objects
    data,              \* a mapping made by to_dict, as a set of <<key, value>>
    rebuilt,           \* what from_dict returned for that mapping
    upsert,            \* a call of QdrantStore.upsert_utterances and its outcome
    proc               \* the process running main(): arguments, position, exit

vars == <<client, on_new_utterance, pc, running, last_ts, seen_ids, stats,
          iteration, max_iterations, sleep_left, new_utterances, idx,
          upserted, notified, stop_requested, pre, cur, returned,
          utt_a, utt_b, ids, data, rebuilt, upsert, proc>>

config == <<client, on_new_utterance>>
loopvars == <<iteration, max_iterations, sleep_left>>
pipeline == <<last_ts, seen_ids, stats>>
cyclevars == <<new_utterances, idx>>
world == <<upserted, notified>>
history == <<pre, cur>>
objects == <<utt_a, utt_b, ids, data, rebuilt, upsert>>
callers == <<returned, objects, proc>>

Snapshot == [last_ts |-> last_ts, seen_ids |-> seen_ids, stats |-> stats]

\* Record of one cycle: its number, the since_ts passed to the source, the
\* transcript the source held, what the fetch did ("raise" or "return") and
\* returned, the number of items all fetches have returned so far, the batch
\* handed to the store, how often each id has been handed to the store so far,
\* what the store call did ("none" when it was not called, else "ok",
\* "false", "raise"), the utterances the callback was invoked on, in order,
\* the positions of the batch whose callback raised, whether stop() was called
\* while the cycle was in flight, what the fetch and the store call of the
\* cycle before did and, while the call of the source is in flight (fetch is
\* "none" then), the list the cycle before fetched and its batch.
NoCycle == [n |-> 0, since |-> None, transcript |-> <<>>, fetch |-> "none",
            fetched |-> <<>>, total |-> 0, batch |-> <<>>, store |-> "none", calls |-> <<>>, raised |-> {},
            submitted |-> [id \in Ids |-> 0], stop |-> FALSE,
            prev |-> [fetch |-> "none", store |-> "none"],
            last |-> [fetched |-> <<>>, batch |-> <<>>]]

Previous == [fetch |-> cur.fetch, store |-> cur.store]

\* The number of times each id has been handed to upsert_utterances, after one
\* more call with the given batch.
Submit(counts, batch) ==
    [id \in Ids |-> counts[id] + Cardinality({i \in 1..Len(batch) : IdOf[batch[i]] = id})]

\* No caller has read the stats property yet.
NoMapping == [obj |-> "none", val |-> <<>>, written |-> FALSE]

\* The state after IngestionPipeline(...), built on a client of the given kind.
InitWith(kind) ==
    /\ client = kind
    /\ on_new_utterance \in BOOLEAN
    /\ pc = "idle"
    /\ running = FALSE
    /\ last_ts = None
    /\ seen_ids = {}
    /\ stats = [polls |-> 0, utterances_ingested |-> 0,
                duplicates_skipped |-> 0, errors |-> 0]
    /\ iteration = 0
    /\ max_iterations = 0
    /\ sleep_left = 0
    /\ new_utterances = <<>>
    /\ idx = 0
    /\ upserted = [u \in Utterances |-> 0]
    /\ notified = [u \in Utterances |-> 0]
    /\ stop_requested = FALSE
    /\ pre = Snapshot
    /\ cur = NoCycle
    /\ returned = NoMapping

\* compute_id has not been called.
NoIds == <<>>

\* to_dict has not been called.
NoData == {}

\* from_dict has not been called.
NotBuilt == <<>>

\* upsert_utterances of a QdrantStore has not been called.
NoUpsert == [utterances |-> <<>>, embed |-> "none", backend |-> "none",
             result |-> "none", contacted |-> FALSE]

\* Two utterance objects and a store no caller has applied a method to.
NoObjects ==
    /\ utt_a = UA /\ utt_b = UA2 /\ ids = NoIds /\ data = NoData /\ rebuilt = NotBuilt
    /\ upsert = NoUpsert

\* The pipeline is built by a caller other than main().
NoProcess == [pc |-> "none"]

\* A source that may return any list whatever since_ts is (MockVexaClient,
\* a test double): every list VexaClient can return is among them.
Init == InitWith("mock") /\ NoObjects /\ proc = NoProcess

\* The pipeline main() builds without --mock.
InitVexa == InitWith("vexa") /\ NoObjects /\ proc = NoProcess

(* ------------------------------- run() --------------------------------- *)

\* The cycle limits run() is called with; 0 stands for max_iterations=None.
Limits == {0, 1, MaxLimit}

\* run(max_iterations=n): lines 76-80.
Run(n) ==
    /\ pc = "idle"
    /\ running' = TRUE
    /\ iteration' = 0
    /\ max_iterations' = n
    /\ pc' = "loop"
    /\ UNCHANGED <<config, callers, pipeline, sleep_left, cyclevars, world, stop_requested,
                   history>>

\* while self._running: false branch, then lines 101-102.
LoopExit ==
    /\ pc = "loop"
    /\ ~running
    /\ running' = FALSE
    /\ pc' = "done"
    /\ UNCHANGED <<config, callers, pipeline, loopvars, cyclevars, world, stop_requested,
                   history>>

\* The positions of run() inside _poll_and_ingest: in the call of the source
\* (lines 115-118), at the call of the store (line 140), in the loop of lines
\* 144-156, at lines 159-161.
InFlight == {"fetch", "store", "notify", "advance"}

\* A stop that takes effect at once: the cycle in flight is abandoned.
Stop_Preemptive ==
    /\ pc # "idle"
    /\ running' = FALSE
    /\ stop_requested' = TRUE
    /\ cur' = [cur EXCEPT !.stop = @ \/ pc \in InFlight]
    /\ pc' = IF pc \in InFlight THEN "done" ELSE pc
    /\ UNCHANGED <<config, callers, pipeline, loopvars, cyclevars, world, pre>>

\* stop(), from another thread or from the signal handler, once run() has
\* begun (before that, self._running is False already and stop() changes
\* no field).
Stop ==
    /\ pc # "idle"
    /\ running' = FALSE
    /\ stop_requested' = TRUE
    /\ cur' = [cur EXCEPT !.stop = @ \/ pc \in InFlight]
    /\ UNCHANGED <<config, callers, pc, pipeline, loopvars, cyclevars, world, pre>>

\* if max_iterations and iteration >= max_iterations
LimitReached(max, it) == max # 0 /\ it >= max

\* _poll_and_ingest returned: lines 85-91, then lines 101-102 after the break
\* or the start of time.sleep(self.poll_interval).
CycleReturns ==
    /\ iteration' = iteration + 1
    /\ UNCHANGED max_iterations
    /\ IF LimitReached(max_iterations, iteration + 1)
       THEN running' = FALSE /\ pc' = "done" /\ UNCHANGED sleep_left
       ELSE UNCHANGED running /\ pc' = "sleep" /\ sleep_left' = SleepTicks

\* As if run() had no except Exception clause: the exception leaves run().
AfterCycleRaise_Propagates == "raised"

\* Where run() continues when an exception leaves _poll_and_ingest: the
\* except Exception clause of lines 96-99, which sleeps and loops.
AfterCycleRaise == "backoff"

\* _poll_and_ingest raised: the counter is left as it is, run() sleeps.
CycleRaises ==
    /\ UNCHANGED <<iteration, max_iterations>>
    /\ pc' = AfterCycleRaise
    /\ sleep_left' = IF AfterCycleRaise = "backoff" THEN SleepTicks ELSE sleep_left
    /\ UNCHANGED running

(* -------------------------- _poll_and_ingest --------------------------- *)

\* No deduplication: every item is taken as new.
IsNew_Always(uid, seen) == TRUE

\* uid not in self._seen_ids
IsNew(uid, seen) == uid \notin seen

\* An id that is not marked when it is classified.
MarkSeen_Later(uid, seen) == seen

\* self._seen_ids.add(uid)
MarkSeen(uid, seen) == seen \cup {uid}

\* The deduplication loop, lines 128-135, from item i on.
RECURSIVE Dedup(_, _, _)
Dedup(us, i, acc) ==
    IF i > Len(us) THEN acc
    ELSE LET uid == IdOf[us[i]] IN
         IF IsNew(uid, acc.seen)
         THEN Dedup(us, i + 1, [acc EXCEPT !.new = Append(@, us[i]),
                                           !.seen = MarkSeen(uid, @)])
         ELSE Dedup(us, i + 1, [acc EXCEPT !.dups = @ + 1])

Bump(st, field, k) == [st EXCEPT ![field] = @ + k]

\* The while test of line 82 found self._running true: _poll_and_ingest
\* counts the poll (line 111) and calls fetch_latest_transcript with
\* since_ts=self._last_ts (lines 115-118).  The call blocks on the network:
\* other threads and the signal handler run until it returns or raises.
PollBegin ==
    /\ pc = "loop"
    /\ running
    /\ stats.polls < MaxPolls
    /\ stats' = Bump(stats, "polls", 1)
    /\ pc' = "fetch"
    /\ pre' = Snapshot
    /\ cur' = [NoCycle EXCEPT !.n = cur.n + 1, !.since = last_ts,
                              !.total = cur.total,
                              !.submitted = cur.submitted,
                              !.prev = Previous,
                              !.last = [fetched |-> cur.fetched, batch |-> cur.batch]]
    /\ UNCHANGED <<config, callers, running, last_ts, seen_ids, loopvars, cyclevars,
                   world, stop_requested>>

\* A fetch failure that is logged and not counted.
FetchErrorStats_Uncounted(st) == st

\* Lines 119-122: the counters after the fetch raised.
FetchErrorStats(st) == Bump(st, "errors", 1)

\* The call of the source raises: lines 119-122, then the return to run().
PollFetchRaises ==
    /\ pc = "fetch"
    /\ stats' = FetchErrorStats(stats)
    /\ CycleReturns
    /\ cur' = [cur EXCEPT !.fetch = "raise", !.last = NoCycle.last]
    /\ UNCHANGED <<config, callers, last_ts, seen_ids, cyclevars, world, stop_requested,
                   pre>>

\* As if lines 124-125 and 137-138 were missing: every batch goes to the store.
NothingToStore_Unchecked(utterances, new) == FALSE

\* Lines 124 and 137: the two early returns, "if not utterances" and
\* "if not new_utterances".
NothingToStore(utterances, new) == utterances = <<>> \/ new = <<>>

\* The call of the source returns, then lines 124-138 up to the store call:
\* the empty-list return, the deduplication, the return when nothing is new.
PollFetchReturns(transcript) ==
    /\ pc = "fetch"
    /\ LET utterances == FetchResult(client, transcript, last_ts)
           d == Dedup(utterances, 1, [new |-> <<>>, seen |-> seen_ids, dups |-> 0])
       IN /\ seen_ids' = d.seen
          /\ stats' = Bump(stats, "duplicates_skipped", d.dups)
          /\ new_utterances' = d.new
          /\ IF NothingToStore(utterances, d.new)
             THEN CycleReturns
             ELSE pc' = "store" /\ UNCHANGED <<running, loopvars>>
          /\ cur' = [cur EXCEPT !.transcript = transcript,
                                 !.fetch = "return", !.fetched = utterances,
                                 !.total = cur.total + Len(utterances),
                                 !.batch = d.new, !.last = NoCycle.last]
    /\ idx' = 0
    /\ UNCHANGED <<config, callers, last_ts, world, stop_requested, pre>>

\* upsert_utterances(new_utterances) returns True.
StoreOk ==
    /\ pc = "store"
    /\ upserted' = [u \in Utterances |->
                      upserted[u] + Cardinality({i \in 1..Len(new_utterances) :
                                                   new_utterances[i] = u})]
    /\ idx' = 1
    /\ pc' = "notify"
    /\ cur' = [cur EXCEPT !.store = "ok",
                           !.submitted = Submit(@, new_utterances)]
    /\ UNCHANGED <<config, callers, running, pipeline, loopvars, new_utterances, notified,
                   stop_requested, pre>>

\* A store failure that is logged and not counted.
StoreErrorStats_Uncounted(st) == st

\* Lines 162-164, and lines 96-98 of run(): the counters after a failed upsert.
StoreErrorStats(st) == Bump(st, "errors", 1)

\* upsert_utterances(new_utterances) returns False: lines 162-164.
StoreFalse ==
    /\ pc = "store"
    /\ stats' = StoreErrorStats(stats)
    /\ CycleReturns
    /\ cur' = [cur EXCEPT !.store = "false",
                           !.submitted = Submit(@, new_utterances)]
    /\ UNCHANGED <<config, callers, last_ts, seen_ids, cyclevars, world, stop_requested, pre>>

\* upsert_utterances(new_utterances) raises: nothing in _poll_and_ingest
\* catches it, run() counts it (lines 96-99).
StoreRaises ==
    /\ pc = "store"
    /\ stats' = StoreErrorStats(stats)
    /\ CycleRaises
    /\ cur' = [cur EXCEPT !.store = "raise",
                           !.submitted = Submit(@, new_utterances)]
    /\ UNCHANGED <<config, callers, last_ts, seen_ids, cyclevars, world, stop_requested, pre>>

\* The batch walked from its end.
NotifyItem_Reversed(us, i) == us[Len(us) + 1 - i]

\* The item the i-th pass of "for utterance in new_utterances" handles.
NotifyItem(us, i) == us[i]

\* Lines 155-156: the except clause around the callback only logs.
CallbackErrorStats(st) == st

\* The try around the whole loop instead of around each call.
AbortOnCallbackError == FALSE

\* Lines 153-156: the try is inside the loop, which goes on after a raise.
ContinueAfterCallbackError == TRUE

\* One pass of the loop of lines 144-156.
Notify(raises) ==
    /\ pc = "notify"
    /\ idx <= Len(new_utterances)
    /\ raises => on_new_utterance
    /\ LET u == NotifyItem(new_utterances, idx)
           abort == raises /\ ~ContinueAfterCallbackError
           counted == Bump(stats, "utterances_ingested", 1)
       IN /\ stats' = IF raises THEN CallbackErrorStats(counted) ELSE counted
          /\ notified' = IF on_new_utterance
                         THEN [notified EXCEPT ![u] = @ + 1] ELSE notified
          /\ cur' = IF on_new_utterance
                    THEN [cur EXCEPT !.calls = Append(@, u),
                                     !.raised = IF raises THEN @ \cup {idx} ELSE @]
                    ELSE cur
          /\ idx' = idx + 1
          /\ IF abort
             THEN CycleRaises
             ELSE /\ pc' = IF idx = Len(new_utterances) THEN "advance" ELSE "notify"
                  /\ UNCHANGED <<running, loopvars>>
    /\ UNCHANGED <<config, callers, last_ts, seen_ids, new_utterances, upserted,
                   stop_requested, pre>>

\* The assignment without its guard.
NewWatermark_NoGuard(last, max_ts) == max_ts

\* The watermark set once and never advanced.
NewWatermark_FirstOnly(last, max_ts) == IF last = None THEN max_ts ELSE last

\* Lines 160-161: the watermark only moves forward.
NewWatermark(last, max_ts) ==
    IF last = None \/ max_ts > last THEN max_ts ELSE last

\* Lines 158-161, then the return to run().
AdvanceWatermark ==
    /\ pc = "advance"
    /\ last_ts' = NewWatermark(last_ts, MaxStartTs(new_utterances))
    /\ CycleReturns
    /\ UNCHANGED <<config, callers, seen_ids, stats, cyclevars, world, stop_requested, history>>

(* --------------------------- run(): the sleep -------------------------- *)

\* time.sleep runs for its whole duration, whatever self._running is, and
\* then control is back at the while test.
SleepTick ==
    /\ pc \in {"sleep", "backoff"}
    /\ sleep_left > 0
    /\ sleep_left' = sleep_left - 1
    /\ pc' = IF sleep_left = 1 THEN "loop" ELSE pc
    /\ UNCHANGED <<config, callers, running, pipeline, iteration, max_iterations,
                   cyclevars, world, stop_requested, history>>

\* KeyboardInterrupt raised in the sleep of line 91: lines 93-95, 101-102.
KeyboardInterrupt ==
    /\ pc = "sleep"
    /\ running' = FALSE
    /\ pc' = "done"
    /\ UNCHANGED <<config, callers, pipeline, loopvars, cyclevars, world, stop_requested,
                   history>>

\* KeyboardInterrupt raised in the sleep of line 99, inside the except
\* clause: no handler is left, run() ends by raising and line 101 is skipped.
KeyboardInterruptInHandler ==
    /\ pc = "backoff"
    /\ pc' = "raised"
    /\ UNCHANGED <<config, callers, running, pipeline, loopvars, cyclevars, world,
                   stop_requested, history>>

Next ==
    \/ \E n \in Limits : Run(n)
    \/ LoopExit
    \/ Stop
    \/ PollBegin
    \/ PollFetchRaises
    \/ \E t \in Transcripts : PollFetchReturns(t)
    \/ StoreOk
    \/ StoreFalse
    \/ StoreRaises
    \/ \E r \in BOOLEAN : Notify(r)
    \/ AdvanceWatermark
    \/ SleepTick
    \/ KeyboardInterrupt
    \/ KeyboardInterruptInHandler

Spec == Init /\ [][Next]_vars

SpecVexa == InitVexa /\ [][Next]_vars

(* ------------------- run() and stop() at any time ---------------------- *)

\* run(max_iterations=n) called on an instance whose run() has ended: the
\* same lines 76-80, nothing tests that the instance was run before.
RunAgain(n) ==
    /\ pc \in {"done", "raised"}
    /\ running' = TRUE
    /\ iteration' = 0
    /\ max_iterations' = n
    /\ pc' = "loop"
    /\ stop_requested' = FALSE
    /\ UNCHANGED <<config, callers, pipeline, sleep_left, cyclevars, world, history>>

\* stop() before run() has executed line 76: lines 104-107.
StopBeforeRun ==
    /\ pc = "idle"
    /\ running' = FALSE
    /\ stop_requested' = TRUE
    /\ UNCHANGED <<config, callers, pc, pipeline, loopvars, cyclevars, world, history>>

\* run() on a thread where signal.signal raises (ValueError outside the main
\* thread): line 76 has run, line 77 raises, lines 80-102 are skipped.
RunSetupFails ==
    /\ pc = "idle"
    /\ running' = TRUE
    /\ pc' = "raised"
    /\ UNCHANGED <<config, callers, pipeline, loopvars, cyclevars, world, stop_requested,
                   history>>

NextLife ==
    \/ Next
    \/ \E n \in Limits : RunAgain(n)
    \/ StopBeforeRun
    \/ RunSetupFails

\* The pipeline with run() and stop() callable in any lifecycle state.
SpecLife == Init /\ [][NextLife]_vars

(* -------------------------- the stats property ------------------------- *)

\* A property that hands out the dict the pipeline counts in.
StatsProperty_Live(st) == [obj |-> "self", val |-> <<>>, written |-> FALSE]

\* Lines 185-188: return self._stats.copy(), a new dict with the same
\* entries (the values are ints).
StatsProperty(st) == [obj |-> "copy", val |-> st, written |-> FALSE]

\* What the mapping the caller holds reads as: its own entries when it is a
\* copy, the entries of self._stats when it is that very dict.
Mapping == IF returned.obj = "self" THEN stats ELSE returned.val

\* snapshot = pipeline.stats, by any thread at any time.
GetStats ==
    /\ returned.obj = "none"
    /\ returned' = StatsProperty(stats)
    /\ UNCHANGED <<config, pc, running, pipeline, loopvars, cyclevars, world,
                   stop_requested, history, objects, proc>>

\* snapshot[key] = snapshot[key] + 1, by the caller that holds the mapping.
CallerWrites(key) ==
    /\ returned.obj # "none"
    /\ ~returned.written
    /\ IF returned.obj = "self"
       THEN /\ stats' = Bump(stats, key, 1)
            /\ returned' = [returned EXCEPT !.written = TRUE]
       ELSE /\ returned' = [returned EXCEPT !.val = Bump(@, key, 1),
                                            !.written = TRUE]
            /\ UNCHANGED stats
    /\ UNCHANGED <<config, pc, running, last_ts, seen_ids, loopvars, cyclevars,
                   world, stop_requested, history, objects, proc>>

\* The lists the source returns while the caller watches: nothing, one
\* utterance, another one; each of them any number of times.
StatsTranscripts == {<<>>, <<"A">>, <<"B">>}

\* Every step of run() that counts, with no stop request and no interrupt.
NextStats ==
    \/ Run(0)
    \/ PollBegin
    \/ PollFetchRaises
    \/ \E t \in StatsTranscripts : PollFetchReturns(t)
    \/ StoreOk
    \/ StoreFalse
    \/ StoreRaises
    \/ \E r \in BOOLEAN : Notify(r)
    \/ AdvanceWatermark
    \/ SleepTick
    \/ GetStats
    \/ \E key \in {"polls", "errors"} : CallerWrites(key)

\* A run() without a cycle limit, with a caller that reads the stats property.
SpecStats == Init /\ [][NextStats]_vars

(* --------------------- TranscriptUtterance methods --------------------- *)

\* Strings a meeting id or a speaker id can be; ":" is an ordinary character.
IdStrings == {"a", "a:a"}

Texts == {"x", "y"}

\* The TranscriptUtterance objects the methods are applied to.
TranscriptUtterances ==
    [meeting_id : IdStrings, speaker_id : IdStrings, speaker_name : {NoName, "n"},
     text : Texts, start_ts : 1..MaxTs, end_ts : {None, 2},
     source : {"vexa", "other"}]

InitId ==
    /\ InitWith("mock")
    /\ utt_a \in TranscriptUtterances
    /\ utt_b \in TranscriptUtterances
    /\ ids = NoIds
    /\ data = NoData
    /\ rebuilt = NotBuilt
    /\ upsert = NoUpsert
    /\ proc = NoProcess

\* ids = (a.compute_id(), b.compute_id()): the method reads four fields and
\* assigns none.
ComputeIds ==
    /\ ids = NoIds
    /\ ids' = [a |-> compute_id(utt_a), b |-> compute_id(utt_b)]
    /\ UNCHANGED <<utt_a, utt_b, data, rebuilt, upsert>>
    /\ UNCHANGED <<config, pc, running, pipeline, loopvars, cyclevars, world,
                   stop_requested, history, returned, proc>>

NextId == ComputeIds

\* compute_id applied to every pair of utterances.
SpecId == InitId /\ [][NextId]_vars

(* ------------------------- to_dict / from_dict ------------------------- *)

\* The fields of the dataclass, lines 18-24.
Fields == {"meeting_id", "speaker_id", "speaker_name", "text", "start_ts",
           "end_ts", "source"}

\* The keys from_dict reads with data.get, lines 44, 47, 48.
OptionalKeys == {"speaker_name", "end_ts", "source"}

\* Lines 26-28: asdict(self), a dict with one entry per field.
to_dict(u) == {<<k, u[k]>> : k \in Fields}

Keys(d) == {p[1] : p \in d}

\* d[k]
Lookup(d, k) == (CHOOSE p \in d : p[1] = k)[2]

\* d.get(k, default)
Get(d, k, default) == IF k \in Keys(d) THEN Lookup(d, k) ELSE default

\* A from_dict that does not restore the provenance.
from_dict_SourceForgotten(d) ==
    IF (Fields \ OptionalKeys) \subseteq Keys(d)
    THEN [meeting_id |-> Lookup(d, "meeting_id"),
          speaker_id |-> Lookup(d, "speaker_id"),
          speaker_name |-> Get(d, "speaker_name", NoName),
          text |-> Lookup(d, "text"),
          start_ts |-> Lookup(d, "start_ts"),
          end_ts |-> Get(d, "end_ts", None),
          source |-> "vexa"]
    ELSE [error |-> "KeyError"]

\* Lines 38-49: data[...] for the four required keys (KeyError when one is
\* missing), data.get for the three others.
from_dict(d) ==
    IF (Fields \ OptionalKeys) \subseteq Keys(d)
    THEN [meeting_id |-> Lookup(d, "meeting_id"),
          speaker_id |-> Lookup(d, "speaker_id"),
          speaker_name |-> Get(d, "speaker_name", NoName),
          text |-> Lookup(d, "text"),
          start_ts |-> Lookup(d, "start_ts"),
          end_ts |-> Get(d, "end_ts", None),
          source |-> Get(d, "source", "vexa")]
    ELSE [error |-> "KeyError"]

InitDict ==
    /\ InitWith("mock")
    /\ utt_a \in TranscriptUtterances
    /\ utt_b = utt_a
    /\ ids = NoIds
    /\ data = NoData
    /\ rebuilt = NotBuilt
    /\ upsert = NoUpsert
    /\ proc = NoProcess

\* data = utt_a.to_dict()
ToDict ==
    /\ data = NoData
    /\ data' = to_dict(utt_a)
    /\ UNCHANGED <<utt_a, utt_b, ids, rebuilt, upsert>>
    /\ UNCHANGED <<config, pc, running, pipeline, loopvars, cyclevars, world,
                   stop_requested, history, returned, proc>>

\* del data[k], by a caller that keeps a mapping without an optional key.
DelKey(k) ==
    /\ rebuilt = NotBuilt
    /\ k \in Keys(data)
    /\ data' = {p \in data : p[1] # k}
    /\ UNCHANGED <<utt_a, utt_b, ids, rebuilt, upsert>>
    /\ UNCHANGED <<config, pc, running, pipeline, loopvars, cyclevars, world,
                   stop_requested, history, returned, proc>>

\* rebuilt = TranscriptUtterance.from_dict(data)
FromDict ==
    /\ data # NoData
    /\ rebuilt = NotBuilt
    /\ rebuilt' = from_dict(data)
    /\ UNCHANGED <<utt_a, utt_b, ids, data, upsert>>
    /\ UNCHANGED <<config, pc, running, pipeline, loopvars, cyclevars, world,
                   stop_requested, history, returned, proc>>

NextDict ==
    \/ ToDict
    \/ \E k \in OptionalKeys : DelKey(k)
    \/ FromDict

\* An utterance written to a mapping and read back.
SpecDict == InitDict /\ [][NextDict]_vars

(* -------------------- QdrantStore.upsert_utterances -------------------- *)

\* A call about to be made: the batch, what the embedding function does for
\* its texts, and what the backend does with the upsert request.
UpsertCalls ==
    [utterances : Transcripts, embed : {"ok", "raise"},
     backend : {"ok", "UnexpectedResponse", "error"},
     result : {"none"}, contacted : {FALSE}]

InitStore ==
    /\ InitWith("mock")
    /\ utt_a = UA /\ utt_b = UA2 /\ ids = NoIds /\ data = NoData /\ rebuilt = NotBuilt
    /\ upsert \in UpsertCalls
    /\ proc = NoProcess

\* Lines 110-150: True for an empty list; the points are built outside the
\* try (compute_id, self._embed_fn, to_dict: lines 123-135), so an exception
\* of the embedding function leaves the method; the client call is inside
\* the try and every exception of it becomes False.
upsert_utterances(utterances, embed, backend) ==
    IF utterances = <<>> THEN [result |-> "True", contacted |-> FALSE]
    ELSE IF embed = "raise" THEN [result |-> "raise", contacted |-> FALSE]
    ELSE IF backend = "ok" THEN [result |-> "True", contacted |-> TRUE]
    ELSE [result |-> "False", contacted |-> TRUE]

\* store.upsert_utterances(utterances)
UpsertUtterances ==
    /\ upsert.result = "none"
    /\ upsert.embed # "none"
    /\ LET r == upsert_utterances(upsert.utterances, upsert.embed, upsert.backend)
       IN upsert' = [upsert EXCEPT !.result = r.result, !.contacted = r.contacted]
    /\ UNCHANGED <<utt_a, utt_b, ids, data, rebuilt>>
    /\ UNCHANGED <<config, pc, running, pipeline, loopvars, cyclevars, world,
                   stop_requested, history, returned, proc>>

NextStore == UpsertUtterances

\* upsert_utterances applied to every batch under every outcome of the
\* embedding function and of the backend.
SpecStore == InitStore /\ [][NextStore]_vars

(* ------------------------------- main() -------------------------------- *)

\* The process at the start of main(): --mock and --skip-deploy given or not,
\* VEXA_API_KEY and VEXA_MEETING_ID set (and not empty) or not.  exit_code is
\* None while the process runs.
Processes ==
    [pc : {"start"}, use_mock : BOOLEAN, api_key : BOOLEAN, meeting_id : BOOLEAN,
     skip_deploy : BOOLEAN, deploy : {"none"}, store : {"none"},
     vexa_closed : {FALSE}, store_closed : {FALSE}, exit_code : {None}]

\* main() passes no on_new_utterance (lines 159-166) and builds the client
\* that --mock selects (lines 112-122).
InitMain ==
    /\ \E kind \in {"mock", "vexa"} :
         /\ InitWith(kind)
         /\ proc \in {p \in Processes : p.use_mock <=> kind = "mock"}
    /\ on_new_utterance = FALSE
    /\ NoObjects

\* A validation that only looks at the API key.
validate_config_KeyOnly(conf, use_mock) == use_mock \/ conf.api_key

\* Lines 61-70.
validate_config(conf, use_mock) ==
    use_mock \/ (conf.api_key /\ conf.meeting_id)

\* sys.exit(code), or the interpreter ending on an exception nothing caught.
Exit(p, code) == [p EXCEPT !.pc = "exited", !.exit_code = code]

pipeline_untouched ==
    UNCHANGED <<config, pc, running, pipeline, loopvars, cyclevars, world,
                stop_requested, history, returned, objects>>

\* Lines 105-109.
MainValidate ==
    /\ proc.pc = "start"
    /\ proc' = IF validate_config(proc, proc.use_mock)
               THEN [proc EXCEPT !.pc = "clients"]
               ELSE Exit(proc, 1)
    /\ pipeline_untouched

\* Lines 112-129: the mock client, or --skip-deploy: deploy_bot is not called.
MainNoDeploy ==
    /\ proc.pc = "clients"
    /\ proc.use_mock \/ proc.skip_deploy
    /\ proc' = [proc EXCEPT !.pc = "connect"]
    /\ pipeline_untouched

\* Lines 130-140: deploy_bot returns, raises VexaAPIError (caught, exit 1),
\* or raises something else (not caught: traceback, exit status 1).
MainDeploy(outcome) ==
    /\ proc.pc = "clients"
    /\ ~proc.use_mock /\ ~proc.skip_deploy
    /\ proc' = IF outcome = "ok"
               THEN [proc EXCEPT !.pc = "connect", !.deploy = outcome]
               ELSE Exit([proc EXCEPT !.deploy = outcome], 1)
    /\ pipeline_untouched

\* Lines 142-156: QdrantStore(...) returns or raises.
MainConnect(ok) ==
    /\ proc.pc = "connect"
    /\ proc' = IF ok
               THEN [proc EXCEPT !.pc = "run", !.store = "ok"]
               ELSE Exit([proc EXCEPT !.store = "error"], 1)
    /\ pipeline_untouched

\* Lines 159-179: the pipeline is built and run(max_iterations=n) is called.
MainRun(n) ==
    /\ proc.pc = "run"
    /\ Run(n)

\* Lines 180-183 once run() has ended: both clients are closed; the process
\* ends with status 0 when run() returned, non-zero when it raised.
MainFinally ==
    /\ proc.pc = "run"
    /\ pc \in {"done", "raised"}
    /\ proc' = Exit([proc EXCEPT !.vexa_closed = TRUE, !.store_closed = TRUE],
                    IF pc = "done" THEN 0 ELSE 1)
    /\ pipeline_untouched

NextMain ==
    \/ MainValidate
    \/ MainNoDeploy
    \/ \E outcome \in {"ok", "VexaAPIError", "error"} : MainDeploy(outcome)
    \/ \E ok \in BOOLEAN : MainConnect(ok)
    \/ \E n \in Limits : MainRun(n)
    \/ MainFinally
    \/ LoopExit
    \/ Stop
    \/ PollBegin
    \/ PollFetchRaises
    \/ \E t \in StatsTranscripts : PollFetchReturns(t)
    \/ StoreOk
    \/ StoreFalse
    \/ StoreRaises
    \/ \E r \in BOOLEAN : Notify(r)
    \/ AdvanceWatermark
    \/ SleepTick
    \/ KeyboardInterrupt
    \/ KeyboardInterruptInHandler

\* The process from the start of main() to its exit.
SpecMain == InitMain /\ [][NextMain]_vars

(* ============================== properties ============================= *)

\* Lines 190-193: the is_running property.
is_running == running

InCycle == pc \in InFlight

\* A cycle has been executed and is over: _poll_and_ingest has returned or
\* raised, and the next one has not begun.
CycleEnded == cur.n > 0 /\ ~InCycle

RECURSIVE SumCounts(_, _)
SumCounts(f, S) ==
    IF S = {} THEN 0
    ELSE LET u == CHOOSE x \in S : TRUE IN f[u] + SumCounts(f, S \ {u})

WithId(id) == {u \in Utterances : IdOf[u] = id}

\* The records the store holds under an id, counting every successful upsert.
Records(ups, id) == SumCounts(ups, WithId(id))

StoredUtterances == {u \in Utterances : upserted[u] > 0}

\* The positions of a fetched list that hold an id neither seen before the
\* cycle nor earlier in the list.
NewPositions(us, seen) ==
    {i \in 1..Len(us) : /\ IdOf[us[i]] \notin seen
                        /\ \A j \in 1..(i - 1) : IdOf[us[j]] # IdOf[us[i]]}

RECURSIVE Pick(_, _, _)
Pick(us, P, i) ==
    IF i > Len(us) THEN <<>>
    ELSE IF i \in P THEN <<us[i]>> \o Pick(us, P, i + 1) ELSE Pick(us, P, i + 1)

\* The new items of a fetched list, in arrival order.
NewInOrder(us, seen) == Pick(us, NewPositions(us, seen), 1)

\* This step begins a cycle: the poll is counted and the source is called.
CycleBegins == cur'.n = cur.n + 1

\* This step is the end of the call of the source in the current cycle.
FetchEnds == cur'.n = cur.n /\ cur.fetch = "none" /\ cur'.fetch # "none"

\* This step is the failing store call of the current cycle.
StoreFails == cur.store = "none" /\ cur'.store \in {"false", "raise"}

\* This step is a callback invocation that raises.
CallbackRaises == cur'.n = cur.n /\ cur'.raised # cur.raised

(* C1: when the source returns the same list on two consecutive cycles and
   the store succeeded on the first, then after the second cycle the store
   holds exactly one record per distinct id of the list, the second cycle
   calls neither the store nor the callback, utterances_ingested is unchanged
   and duplicates_skipped grows by the length of the list. *)
C1_IdempotentRedelivery ==
    [][(/\ cur.prev.fetch = "return"
        /\ cur.prev.store = "ok"
        /\ FetchEnds
        /\ cur'.fetch = "return"
        /\ cur'.fetched = cur.last.fetched)
       => (/\ \A i \in 1..Len(cur'.fetched) :
                Records(upserted', IdOf[cur'.fetched[i]]) = 1
           /\ pc' # "store"
           /\ cur'.batch = <<>>
           /\ upserted' = upserted
           /\ notified' = notified
           /\ stats'.utterances_ingested = stats.utterances_ingested
           /\ stats'.duplicates_skipped =
                stats.duplicates_skipped + Len(cur'.fetched))]_vars

(* C2: once the watermark has a value it never becomes None again and never
   decreases, in any step of any cycle. *)
C2_WatermarkMonotonic ==
    [][last_ts # None => (last_ts' # None /\ last_ts' >= last_ts)]_vars

\* A batch older than the watermark was stored and the watermark stayed.
C2_Witness ==
    /\ CycleEnded
    /\ cur.store = "ok"
    /\ pre.last_ts # None
    /\ MaxStartTs(cur.batch) < pre.last_ts
    /\ last_ts = pre.last_ts

(* C3: between cycles the watermark is the maximum start_ts of the utterances
   stored with success, and None exactly when nothing was stored; a batch
   whose upsert failed does not contribute. *)
C3_WatermarkIsMaxStored ==
    ~InCycle =>
        /\ (last_ts = None) <=> (StoredUtterances = {})
        /\ StoredUtterances # {} =>
             last_ts = SetMax({StartTs[u] : u \in StoredUtterances})

\* A batch newer than the watermark failed to store.
C3_Witness ==
    /\ CycleEnded
    /\ cur.store \in {"false", "raise"}
    /\ last_ts # None
    /\ MaxStartTs(cur.batch) > last_ts

(* C4: a cycle whose fetch raises adds 1 to polls and 1 to errors and changes
   nothing else (no store call, no callback), and the cycle after it passes
   the same since_ts to the source. *)
C4_FetchFailureIsolated ==
    [][/\ CycleBegins =>
            /\ stats' = [stats EXCEPT !.polls = @ + 1]
            /\ UNCHANGED <<last_ts, seen_ids, upserted, notified>>
       /\ (FetchEnds /\ cur'.fetch = "raise") =>
            /\ stats' = [pre.stats EXCEPT !.polls = @ + 1, !.errors = @ + 1]
            /\ last_ts' = pre.last_ts
            /\ seen_ids' = pre.seen_ids
            /\ UNCHANGED <<upserted, notified>>
            /\ ~InCycle'
            /\ cur'.store = "none"
            /\ cur'.calls = <<>>
       /\ (cur.fetch = "raise" /\ CycleBegins) => cur'.since = cur.since]_vars

\* The cycle after a failed fetch ran with a watermark already set.
C4_Witness ==
    /\ cur.prev.fetch = "raise"
    /\ cur.fetch = "return"
    /\ cur.since # None
    /\ seen_ids # {}

(* C5: a cycle whose batch upsert fails (returns False or raises) adds
   exactly 1 to errors, leaves the watermark and utterances_ingested as they
   were, invokes no callback, and leaves the ids of the batch in the seen-set. *)
C5_StoreFailureHandling ==
    (CycleEnded /\ cur.store \in {"false", "raise"}) =>
        /\ stats.errors = pre.stats.errors + 1
        /\ last_ts = pre.last_ts
        /\ stats.utterances_ingested = pre.stats.utterances_ingested
        /\ cur.calls = <<>>
        /\ notified = [u \in Utterances |->
                         IF u \in StoredUtterances THEN notified[u] ELSE 0]
        /\ \A i \in 1..Len(cur.batch) : IdOf[cur.batch[i]] \in seen_ids

\* The upsert of a batch of two new items raised, with a callback registered.
C5_Witness ==
    /\ CycleEnded
    /\ cur.store = "raise"
    /\ Len(cur.batch) = 2
    /\ on_new_utterance

(* C6: when the batch upsert of a cycle fails and the next cycle is given the
   same utterances by the source, the utterances of the failed batch are
   handed to the store again in that next cycle. *)
C6_FailedBatchResubmitted ==
    [][(/\ cur.prev.store \in {"false", "raise"}
        /\ FetchEnds
        /\ cur'.fetch = "return"
        /\ cur'.fetched = cur.last.fetched)
       => \A i \in 1..Len(cur.last.batch) :
              cur.last.batch[i] \in Range(cur'.batch)]_vars

(* C7: with a callback registered, the callback is invoked exactly once for
   each utterance of a stored batch, after the upsert succeeded, in the order
   the utterances arrived in the cycle; never for a duplicate, for an item of
   a failed batch, or twice for one id. *)
C7_NotifyOnceInOrder ==
    LET expected == NewInOrder(cur.fetched, pre.seen_ids) IN
    /\ cur.calls # <<>> => (cur.store = "ok" /\ on_new_utterance)
    /\ Len(cur.calls) <= Len(expected)
    /\ cur.calls = SubSeq(expected, 1, Len(cur.calls))
    /\ (CycleEnded /\ cur.store = "ok" /\ on_new_utterance) => cur.calls = expected
    /\ \A id \in Ids : SumCounts(notified, WithId(id)) <= 1
    /\ \A u \in Utterances : notified[u] > 0 => upserted[u] > 0
    /\ (~InCycle /\ on_new_utterance) =>
         \A u \in StoredUtterances : notified[u] = 1

\* Both utterances of a batch were notified, the later segment first, as it
\* had arrived.
C7_Witness ==
    /\ CycleEnded
    /\ cur.n > 1
    /\ cur.fetched = <<"B", "A2">>
    /\ cur.calls = <<"B", "A2">>

(* C8: when the callback raises for an item of a stored batch, the callback
   is still invoked for every later item, utterances_ingested grows by the
   size of the batch and the watermark ends where it would have without
   the failure. *)
C8_CallbackFailureDoesNotAbort ==
    (CycleEnded /\ cur.raised # {}) =>
        LET max_ts == MaxStartTs(cur.batch) IN
        /\ cur.calls = cur.batch
        /\ stats.utterances_ingested =
             pre.stats.utterances_ingested + Len(cur.batch)
        /\ last_ts = IF pre.last_ts = None \/ max_ts > pre.last_ts
                     THEN max_ts ELSE pre.last_ts

\* The callback raised on the first of two items and the cycle is over.
C8_Witness ==
    /\ CycleEnded
    /\ cur.raised = {1}
    /\ Len(cur.batch) = 2
    /\ last_ts = 2

(* C9: every callback invocation that raises adds exactly 1 to the error
   counter. *)
C9_CallbackFailureCounted ==
    (CycleEnded /\ cur.store = "ok") =>
        stats.errors = pre.stats.errors + Cardinality(cur.raised)

(* C10: an exception of the source, the store or the callback never ends
   run(): run() ends only by the cycle limit, by a stop request seen at the
   while test, or by a keyboard interrupt, and a failing step leaves
   self._running as it is unless the cycle limit ends the loop with it. *)
C10_FailuresNeverEndLoop ==
    [][/\ (pc \notin {"done", "raised"} /\ pc' \in {"done", "raised"}) =>
            \/ /\ pc' = "done"
               /\ iteration' = iteration + 1
               /\ LimitReached(max_iterations, iteration')
            \/ pc = "loop" /\ ~running /\ stop_requested
            \/ KeyboardInterrupt
            \/ KeyboardInterruptInHandler
       /\ ((FetchEnds /\ cur'.fetch = "raise") \/ StoreFails \/ CallbackRaises) =>
            /\ pc' # "raised"
            /\ pc' # "done" => (running' = running /\ pc' # "idle")]_vars

\* A cycle was begun after the store had raised in the cycle before.
C10_Witness ==
    /\ cur.n > 1
    /\ cur.prev.store = "raise"
    /\ pc = "store"
    /\ running

(* C11: Stopped is terminal: once run() has returned, no operation on the
   instance, another run() included, makes is_running true again, begins a
   cycle or changes the statistics. *)
C11_StoppedIsTerminal ==
    [][pc = "done" =>
         /\ pc' = "done"
         /\ ~running'
         /\ ~CycleBegins
         /\ stats' = stats]_vars

(* C12: stop is cooperative: a stop() called while a cycle is in flight
   changes nothing of that cycle, which still hands its batch to the store
   and, when the store succeeds, invokes every callback, counts every item
   and advances the watermark; after it no cycle begins, the poll counter
   stays, and the while test finds self._running false, so run() ends. *)
C12_StopIsCooperative ==
    [][/\ (cur'.stop /\ ~cur.stop) =>
            UNCHANGED <<pc, last_ts, seen_ids, stats, new_utterances, idx,
                        upserted, notified>>
       /\ (cur'.stop /\ CycleEnded') =>
            /\ cur'.fetch # "none"
            /\ cur'.fetch = "raise" =>
                 (cur'.store = "none" /\ stats'.errors = pre'.stats.errors + 1)
            /\ cur'.fetch = "return" =>
                 /\ cur'.batch = NewInOrder(cur'.fetched, pre'.seen_ids)
                 /\ cur'.batch # <<>> => cur'.store # "none"
            /\ cur'.store = "ok" =>
                 /\ cur'.calls = IF on_new_utterance THEN cur'.batch ELSE <<>>
                 /\ stats'.utterances_ingested =
                      pre'.stats.utterances_ingested + Len(cur'.batch)
                 /\ last_ts' = NewWatermark(pre'.last_ts, MaxStartTs(cur'.batch))
            /\ cur'.store \in {"false", "raise"} =>
                 stats'.errors = pre'.stats.errors + 1
       /\ cur.stop => (~CycleBegins /\ stats'.polls = stats.polls)
       /\ (cur'.stop /\ pc' = "loop") => ~running'
       /\ (cur.stop /\ pc = "loop") => pc' \in {"loop", "done"}]_vars

\* stop() was called during a cycle that then notified both items of its
\* batch, and run(), called without a cycle limit, has returned.
C12_Witness ==
    /\ cur.stop
    /\ cur.store = "ok"
    /\ Len(cur.calls) = 2
    /\ last_ts = 2
    /\ max_iterations = 0
    /\ pc = "done"
    /\ stats.polls = cur.n

(* C13: a stop request is never lost, whenever stop() is called, before
   run() has executed its first statement included: while the request stands,
   the while test finds self._running false and no cycle begins. *)
C13_StopNeverLost ==
    [][stop_requested' =>
         /\ pc' = "loop" => ~running'
         /\ ~CycleBegins]_vars

(* C14: the sleep between cycles is interruptible: when stop() is called
   while the loop sleeps between two cycles, no further tick of the sleep
   elapses before the loop leaves it. *)
C14_SleepInterruptible ==
    [][(pc = "sleep" /\ stop_requested /\ ~cur.stop) =>
         sleep_left' = sleep_left]_vars

(* C15: run(max_iterations=N) with N >= 1 and no stop request executes exactly
   N cycles: the poll counter never exceeds N, it is N when the limit ends
   run(), and there is no sleep after the last cycle. *)
C15_CycleLimitExact ==
    (max_iterations # 0 /\ ~stop_requested) =>
        /\ stats.polls <= max_iterations
        /\ (pc = "done" /\ iteration >= max_iterations) =>
             stats.polls = max_iterations
        /\ pc = "sleep" => iteration < max_iterations

(* C16: a cycle in which the source returns an empty list adds 1 to polls and
   changes nothing else: the other counters, the watermark and the seen-set
   stay, the store is not called and no callback is invoked. *)
C16_EmptyFetchIsNoOp ==
    [][/\ CycleBegins => UNCHANGED <<upserted, notified>>
       /\ (FetchEnds /\ cur'.fetch = "return" /\ cur'.fetched = <<>>) =>
            /\ stats' = [pre.stats EXCEPT !.polls = @ + 1]
            /\ last_ts' = pre.last_ts
            /\ seen_ids' = pre.seen_ids
            /\ UNCHANGED <<upserted, notified>>
            /\ ~InCycle'
            /\ cur'.store = "none"
            /\ cur'.calls = <<>>]_vars

\* An empty list was fetched by a pipeline that had ingested before.
C16_Witness ==
    /\ CycleEnded
    /\ cur.fetch = "return"
    /\ cur.fetched = <<>>
    /\ seen_ids # {}
    /\ last_ts # None
    /\ stats.polls = pre.stats.polls + 1

(* C17: the stats property returns a snapshot: the mapping holds the counters
   as they were at the call, a write of the caller to the mapping leaves the
   counters of the pipeline as they were, and no later step of the pipeline
   changes the mapping. *)
C17_StatsIsSnapshot ==
    [][/\ (returned.obj = "none" /\ returned'.obj # "none") =>
            (Mapping' = stats /\ stats' = stats)
       /\ (returned'.written /\ ~returned.written) =>
            (stats' = stats /\ Mapping' # Mapping)
       /\ (returned.obj # "none" /\ returned'.written = returned.written) =>
            Mapping' = Mapping]_vars

\* A mapping read before a cycle, written by its caller, differs from the
\* counters in what the caller wrote and in what the cycle counted.
C17_Witness ==
    /\ returned.obj # "none"
    /\ returned.written
    /\ Mapping.errors = 1
    /\ stats.errors = 0
    /\ Mapping.polls = 1
    /\ Mapping.utterances_ingested = 1
    /\ stats.polls = 3
    /\ stats.utterances_ingested = 2
    /\ stats.duplicates_skipped = 1

(* C18: is_running is false on a new instance, true while run() is in its
   loop and no stop was requested, and false once run() has ended, whichever
   way it ended: the cycle limit, a stop request, a keyboard interrupt or an
   error while starting the loop. *)
C18_IsRunningReflectsLifecycle ==
    /\ pc = "idle" => ~is_running
    /\ (pc \notin {"idle", "done", "raised"} /\ ~stop_requested) => is_running
    /\ pc \in {"done", "raised"} => ~is_running

\* The identity tuple of an utterance.
Identity(u) == <<u.meeting_id, u.speaker_id, u.start_ts, u.text>>

(* C19: compute_id depends on the identity tuple only: two utterances with
   equal (meeting_id, speaker_id, start_ts, text) get equal ids whatever their
   speaker_name, end_ts and source, and the call leaves both as they were. *)
C19_IdDependsOnIdentityOnly ==
    [][(ids = NoIds /\ ids' # NoIds) =>
         /\ Identity(utt_a) = Identity(utt_b) => ids'.a = ids'.b
         /\ utt_a' = utt_a
         /\ utt_b' = utt_b]_vars

\* Ids were computed for two utterances that differ in every field outside
\* the identity tuple.
C19_Witness ==
    /\ ids # NoIds
    /\ Identity(utt_a) = Identity(utt_b)
    /\ utt_a.meeting_id = "a:a"
    /\ utt_a.speaker_name # utt_b.speaker_name
    /\ utt_a.end_ts # utt_b.end_ts
    /\ utt_a.source # utt_b.source
    /\ ids.a = ids.b

(* C20: utterances that differ in meeting_id, speaker_id, start_ts or text
   get different ids, the hash taken as injective on its key. *)
C20_DistinctIdentityDistinctId ==
    (ids # NoIds /\ Identity(utt_a) # Identity(utt_b)) => ids.a # ids.b

(* C21: from_dict(to_dict(u)) equals u in all seven fields and has the id of
   u; from_dict of a mapping without speaker_name, end_ts or source returns
   an utterance with None, None and "vexa" there, and the other fields as
   the mapping has them. *)
C21_DictRoundTrip ==
    rebuilt # NotBuilt =>
        /\ DOMAIN rebuilt = Fields
        /\ \A k \in Keys(data) : rebuilt[k] = utt_a[k]
        /\ Keys(data) = Fields =>
             (rebuilt = utt_a /\ compute_id(rebuilt) = compute_id(utt_a))
        /\ "speaker_name" \notin Keys(data) => rebuilt.speaker_name = NoName
        /\ "end_ts" \notin Keys(data) => rebuilt.end_ts = None
        /\ "source" \notin Keys(data) => rebuilt.source = "vexa"

\* An utterance with every optional field set came back from its mapping.
C21_Witness ==
    /\ rebuilt # NotBuilt
    /\ Keys(data) = Fields
    /\ utt_a.speaker_name = "n"
    /\ utt_a.end_ts = 2
    /\ utt_a.source = "other"
    /\ rebuilt.source = "other"

\* A startup failure: a required setting is missing, the bot could not be
\* deployed, or the store could not be constructed.
StartupFailed ==
    \/ ~proc.use_mock /\ (~proc.api_key \/ ~proc.meeting_id)
    \/ proc.deploy \in {"VexaAPIError", "error"}
    \/ proc.store = "error"

(* C22: a startup failure is fatal: run() is never called and the process
   exits with a non-zero code; when the loop was started and run() returned
   (graceful stop, cycle limit), both clients are closed and the exit code
   is 0. *)
C22_StartupFailuresAreFatal ==
    /\ StartupFailed =>
         /\ pc = "idle"
         /\ proc.pc \in {"start", "exited"}
         /\ proc.pc = "exited" => proc.exit_code # 0
    /\ (proc.pc = "exited" /\ pc = "done") =>
         /\ proc.vexa_closed
         /\ proc.store_closed
         /\ proc.exit_code = 0
    /\ pc # "idle" => proc.store = "ok"

\* A live run with a deployed bot was stopped after polling and has exited.
C22_Witness ==
    /\ proc.pc = "exited"
    /\ ~proc.use_mock
    /\ proc.deploy = "ok"
    /\ pc = "done"
    /\ stop_requested
    /\ stats.polls > 0
    /\ proc.exit_code = 0
    /\ proc.vexa_closed

(* C23: in each cycle the store is called at most once, with the fetched
   utterances whose id was not in the seen-set when they were examined, in
   arrival order, an id repeated in the fetch result taken once and counted
   as a duplicate afterwards; every id of the result is in the seen-set
   before the store is called. *)
C23_OneBatchClassifyThenMark ==
    (cur.n > 0 /\ cur.fetch = "return") =>
        /\ cur.batch = NewInOrder(cur.fetched, pre.seen_ids)
        /\ \A i, j \in 1..Len(cur.batch) :
             IdOf[cur.batch[i]] = IdOf[cur.batch[j]] => i = j
        /\ seen_ids = pre.seen_ids \cup {IdOf[u] : u \in Range(cur.fetched)}
        /\ stats.duplicates_skipped =
             pre.stats.duplicates_skipped + Len(cur.fetched) - Len(cur.batch)
        /\ pc = "store" => (cur.store = "none" /\ new_utterances = cur.batch)
        /\ cur.store # "none" => (cur.batch # <<>> /\ pc # "store")

\* The same segment arrived twice in one fetch result; the batch about to be
\* stored holds it once.
C23_Witness ==
    /\ pc = "store"
    /\ cur.fetched = <<"A", "A2">>
    /\ cur.batch = <<"A">>
    /\ stats.duplicates_skipped = pre.stats.duplicates_skipped + 1

(* C24: every cycle calls the source with since_ts equal to the watermark,
   None while nothing is stored; VexaClient returns the utterances of the
   response whose start_ts is strictly greater than since_ts, in response
   order, and all of them when since_ts is None. *)
C24_FetchWindow ==
    cur.n > 0 =>
        /\ cur.since = pre.last_ts
        /\ StoredUtterances = {} => cur.since = None
        /\ cur.fetch = "return" =>
             cur.fetched =
                 Pick(cur.transcript,
                      {i \in 1..Len(cur.transcript) :
                          cur.since = None \/ StartTs[cur.transcript[i]] > cur.since},
                      1)

\* With the watermark at 1 the source held a segment at 1 and one at 2, and
\* the fetch returned the later one only.
C24_Witness ==
    /\ cur.since = 1
    /\ cur.transcript = <<"A2", "B">>
    /\ cur.fetch = "return"
    /\ cur.fetched = <<"B">>

(* C25: upsert_utterances reports the outcome of the whole batch as a value:
   True for an empty list, without contacting the backend; True when the
   backend upsert succeeds; False, never an exception, for every failure
   while the batch is prepared or written, a failure of the embedding
   function included. *)
C25_UpsertReturnsValue ==
    upsert.result # "none" =>
        LET failed == upsert.embed = "raise" \/ upsert.backend # "ok" IN
        /\ upsert.result \in {"True", "False"}
        /\ upsert.utterances = <<>> => (upsert.result = "True" /\ ~upsert.contacted)
        /\ (upsert.utterances # <<>> /\ ~failed) => upsert.result = "True"
        /\ (upsert.utterances # <<>> /\ failed) => upsert.result = "False"

\* The ids the store holds a record for.
StoredIds == {id \in Ids : Records(upserted, id) > 0}

(* C26: between cycles utterances_ingested is the number of distinct ids the
   instance has stored, no id was handed to the store twice, every stored id
   is in the seen-set, and the number of items all successful fetches returned is the
   size of the seen-set plus duplicates_skipped. *)
C26_CounterConservation ==
    ~InCycle =>
        /\ stats.utterances_ingested = Cardinality(StoredIds)
        /\ \A id \in Ids : cur.submitted[id] <= 1 /\ Records(upserted, id) <= 1
        /\ StoredIds \subseteq seen_ids
        /\ cur.total = Cardinality(seen_ids) + stats.duplicates_skipped

\* Two ids stored in two batches, one repeated item skipped, one failed fetch.
C26_Witness ==
    /\ ~InCycle
    /\ stats.utterances_ingested = 2
    /\ stats.duplicates_skipped = 1
    /\ stats.errors = 1
    /\ cur.total = 3

(* C27: the watermark covers stored data only: between cycles every utterance
   whose id is in the seen-set and whose start_ts is at or below the
   watermark has been stored. *)
C27_WatermarkCoversStoredOnly ==
    ~InCycle =>
        \A u \in Utterances :
            (IdOf[u] \in seen_ids /\ last_ts # None /\ StartTs[u] <= last_ts) =>
                IdOf[u] \in StoredIds

\* The utterance is behind the watermark and its id is not in the store.
Skipped(u) ==
    /\ last_ts # None
    /\ StartTs[u] <= last_ts
    /\ IdOf[u] \notin StoredIds

\* No fetch, store call or callback has failed so far.
NoFailureYet == stats.errors = 0 /\ cur.raised = {}

\* An utterance behind the watermark stays behind it and stays out of the
\* store: the window of every later fetch begins above its start_ts.
SkippedIsForever == [][\A u \in Utterances : Skipped(u) => Skipped(u)']_vars

(* C28: no data is skipped. In a run whose fetches and store calls all
   succeed, no utterance the source held at the last fetch is left behind the
   watermark without being stored, which would keep it out of every later
   fetch and so out of the store for good. *)
C28_NoDataSkipped ==
    (~InCycle /\ NoFailureYet) =>
        \A i \in 1..Len(cur.transcript) : ~Skipped(cur.transcript[i])

====
